---- MODULE Spec2Model ----
(***************************************************************************)
(* A model of agent-kuper (src/main.rs): the monthly creative-work         *)
(* declaration generator.  main() parses the month argument, reads the     *)
(* environment, issues one GET to the review API, decodes the response,    *)
(* renders the rows into TEMPLATE and prints the document.                 *)
(*                                                                         *)
(* Text is a sequence of units.  A unit is one character, written as a     *)
(* one-character string; a run of fixed text (of TEMPLATE, or of a format  *)
(* string) that no search of the program can match inside of or across is  *)
(* kept as one unit.                                                       *)
(***************************************************************************)
EXTENDS Integers, Sequences, FiniteSets, TLC

\* ------------------------------------------------------------------ bounds
\* The target years are FirstYear .. FirstYear + YearSpan.
YearSpan == 1
\* Review lists of the rendering specification hold at most MaxPrs entries.
MaxPrs == 4
\* Titles of the row specification hold at most MaxTitleLen characters.
MaxTitleLen == 3
\* API responses of the run specification hold at most MaxData elements.
MaxData == 2

\* The first target year of the window; the century years 1900 (no leap year)
\* and 2000 (a leap year) are always among the target years.
FirstYear == 2023
Years == (FirstYear .. (FirstYear + YearSpan)) \cup {1900, 2000}

None == [none |-> TRUE]

\* ------------------------------------------------------------------ text
Min(S) == CHOOSE x \in S : \A y \in S : x <= y

RECURSIVE Concat(_)
Concat(ss) == IF ss = <<>> THEN <<>> ELSE Head(ss) \o Concat(Tail(ss))

\* str::join
RECURSIVE Join(_, _)
Join(ss, sep) ==
    IF ss = <<>> THEN <<>>
    ELSE IF Len(ss) = 1 THEN ss[1]
    ELSE ss[1] \o sep \o Join(Tail(ss), sep)

\* The start positions of pat in s.
Matches(s, pat) ==
    {i \in 1 .. (Len(s) - Len(pat) + 1) : SubSeq(s, i, i + Len(pat) - 1) = pat}

\* str::replace: every non-overlapping match, left to right, in one pass; the
\* replacement text is not searched again.
RECURSIVE Replace(_, _, _)
Replace(s, pat, rep) ==
    IF Matches(s, pat) = {} THEN s
    ELSE LET i == Min(Matches(s, pat))
         IN  SubSeq(s, 1, i - 1) \o rep
                 \o Replace(SubSeq(s, i + Len(pat), Len(s)), pat, rep)

DigitChars == <<"0", "1", "2", "3", "4", "5", "6", "7", "8", "9">>
IsDigit(c) == \E d \in 1 .. 10 : DigitChars[d] = c
DigitValue(c) == (CHOOSE d \in 1 .. 10 : DigitChars[d] = c) - 1

\* Display of a non-negative integer.
RECURSIVE ToDigits(_)
ToDigits(n) ==
    IF n < 10 THEN <<DigitChars[n + 1]>>
    ELSE ToDigits(n \div 10) \o <<DigitChars[(n % 10) + 1]>>

\* i32::to_string and the {} of an i32.
I32ToString(n) == IF n < 0 THEN <<"-">> \o ToDigits(0 - n) ELSE ToDigits(n)

\* Zero padding to width w, as the %d, %m and %Y items pad.
RECURSIVE ZeroPad(_, _)
ZeroPad(s, w) == IF Len(s) >= w THEN s ELSE ZeroPad(<<"0">> \o s, w)

\* ------------------------------------------------------------------ dates
\* A NaiveDate is a record [y, m, d].
IsLeap(y) == (y % 4 = 0 /\ y % 100 # 0) \/ y % 400 = 0

DaysInMonth(y, m) ==
    IF m = 2 THEN (IF IsLeap(y) THEN 29 ELSE 28)
    ELSE IF m \in {4, 6, 9, 11} THEN 30 ELSE 31

\* NaiveDate::from_ymd_opt: None unless the day exists.
from_ymd_opt(y, m, d) ==
    IF m \in 1 .. 12 /\ d >= 1 /\ d <= DaysInMonth(y, m)
    THEN [y |-> y, m |-> m, d |-> d]
    ELSE None

\* NaiveDate::pred_opt: the previous calendar day.
pred_opt(date) ==
    IF date.d > 1 THEN [date EXCEPT !.d = date.d - 1]
    ELSE IF date.m > 1
         THEN [y |-> date.y, m |-> date.m - 1, d |-> DaysInMonth(date.y, date.m - 1)]
         ELSE [y |-> date.y - 1, m |-> 12, d |-> 31]

\* format("%d.%m.%Y")
FormatDMY(date) ==
    ZeroPad(ToDigits(date.d), 2) \o <<".">> \o ZeroPad(ToDigits(date.m), 2)
        \o <<".">> \o ZeroPad(ToDigits(date.y), 4)

\* format("%m.%Y")
FormatMY(date) ==
    ZeroPad(ToDigits(date.m), 2) \o <<".">> \o ZeroPad(ToDigits(date.y), 4)

\* The query range of fetch_prs_for_month: start_date and end_date.  The
\* unwrap_or_else takes January of year + 1 exactly when month + 1 is no month.
QueryRange(date) ==
    LET month == date.m
        year == date.y
        next == from_ymd_opt(year, month + 1, 1)
    IN  [start_date |-> from_ymd_opt(year, month, 1),
         end_date |-> pred_opt(IF next = None THEN from_ymd_opt(year + 1, 1, 1)
                               ELSE next)]

last_day_of_month_NoRollover(date) ==
    LET next_month == IF date.m = 12 THEN 1 ELSE date.m + 1
    IN  pred_opt(from_ymd_opt(date.y, next_month, 1))

last_day_of_month(date) ==
    LET year == date.y
        month == date.m
        next_month == IF month = 12 THEN 1 ELSE month + 1
        next_month_year == IF month = 12 THEN year + 1 ELSE year
    IN  pred_opt(from_ymd_opt(next_month_year, next_month, 1))

previous_month_SameMonth(now) == from_ymd_opt(now.y, now.m, 1)

\* previous_month, of the current UTC date: the day before the 1st of the
\* current month (the last day of the month before, not its 1st).
previous_month(now) == pred_opt(from_ymd_opt(now.y, now.m, 1))

\* ------------------------------------------------------------- timestamps
\* Days since 1970-01-01 of a calendar day, and back (proleptic Gregorian).
DaysFromCivil(y, m, d) ==
    LET yy == IF m <= 2 THEN y - 1 ELSE y
        era == yy \div 400
        yoe == yy - era * 400
        mp == IF m > 2 THEN m - 3 ELSE m + 9
        doy == (153 * mp + 2) \div 5 + d - 1
        doe == yoe * 365 + yoe \div 4 - yoe \div 100 + doy
    IN  era * 146097 + doe - 719468

CivilFromDays(days) ==
    LET z == days + 719468
        era == z \div 146097
        doe == z - era * 146097
        yoe == (doe - doe \div 1460 + doe \div 36524 - doe \div 146096) \div 365
        doy == doe - (365 * yoe + yoe \div 4 - yoe \div 100)
        mp == (5 * doy + 2) \div 153
        d == doy - (153 * mp + 2) \div 5 + 1
        m == IF mp < 10 THEN mp + 3 ELSE mp - 9
        y == yoe + era * 400
    IN  [y |-> IF m <= 2 THEN y + 1 ELSE y, m |-> m, d |-> d]

\* An epoch-millis value ms is kept as [days, ms]: its Euclidean quotient and
\* remainder by 86 400 000, the split timestamp_millis_opt makes itself.
Millis(days, ms) == [days |-> days, ms |-> ms]

\* Utc.timestamp_millis_opt(ms).single(): None outside chrono's date range,
\* -262143-01-01 .. +262142-12-31.
timestamp_millis_opt(raw) ==
    IF /\ raw.days >= DaysFromCivil(0 - 262143, 1, 1)
       /\ raw.days <= DaysFromCivil(262142, 12, 31)
    THEN [date |-> CivilFromDays(raw.days), ms |-> raw.ms]
    ELSE None

Panic == [panic |-> TRUE]

\* parse_timestamp: the expect("Invalid timestamp") panics on None.
parse_timestamp(raw) ==
    IF timestamp_millis_opt(raw) = None THEN Panic ELSE timestamp_millis_opt(raw)

\* --------------------------------------------------------- month argument
\* scan::number of chrono: the longest prefix of at least lo and at most hi
\* digits; None when there are fewer than lo.
RECURSIVE DigitPrefixLen(_, _)
DigitPrefixLen(s, hi) ==
    IF hi = 0 \/ s = <<>> \/ ~IsDigit(Head(s)) THEN 0
    ELSE 1 + DigitPrefixLen(Tail(s), hi - 1)

RECURSIVE DigitsValue(_)
DigitsValue(s) ==
    IF s = <<>> THEN 0
    ELSE DigitsValue(SubSeq(s, 1, Len(s) - 1)) * 10 + DigitValue(s[Len(s)])

ScanNumber(s, lo, hi) ==
    LET n == DigitPrefixLen(s, hi)
    IN  IF n < lo THEN None
        ELSE [value |-> DigitsValue(SubSeq(s, 1, n)), rest |-> SubSeq(s, n + 1, Len(s))]

\* The unsigned forms of the items %Y (1 to 4 digits), %m and %d (1 to 2).
ScanLiteralDash(s) ==
    IF s # <<>> /\ Head(s) = "-" THEN [rest |-> Tail(s)] ELSE None

\* NaiveDate::parse_from_str(s, "%Y-%m-%d"): None for an Err.
parse_from_str(s) ==
    LET y == ScanNumber(s, 1, 4)
        d1 == IF y = None THEN None ELSE ScanLiteralDash(y.rest)
        m == IF d1 = None THEN None ELSE ScanNumber(d1.rest, 1, 2)
        d2 == IF m = None THEN None ELSE ScanLiteralDash(m.rest)
        d == IF d2 = None THEN None ELSE ScanNumber(d2.rest, 1, 2)
    IN  IF d = None THEN None
        ELSE IF d.rest # <<>> THEN None
        ELSE from_ymd_opt(y.value, m.value, d.value)

\* The closure of main: the date of format!("{}-01", m), or a panic by
\* expect("Invalid date format, use YYYY-MM").
ParseMonthArg(m) ==
    IF parse_from_str(m \o <<"-", "0", "1">>) = None THEN Panic
    ELSE parse_from_str(m \o <<"-", "0", "1">>)

\* The text "YYYY-MM" of a year and a month number.
YearMonthText(y, m) ==
    ZeroPad(ToDigits(y), 4) \o <<"-">> \o ZeroPad(ToDigits(m), 2)

\* -------------------------------------------------------------- rendering
PRS == <<"{", "p", "r", "s", "}">>
MONTH == <<"{", "m", "o", "n", "t", "h", "}">>
PERCENT_CREATIVE ==
    <<"{", "p", "e", "r", "c", "e", "n", "t", "_",
      "c", "r", "e", "a", "t", "i", "v", "e", "}">>
LAST_DAY_OF_MONTH ==
    <<"{", "l", "a", "s", "t", "_", "d", "a", "y", "_",
      "o", "f", "_", "m", "o", "n", "t", "h", "}">>

\* TEMPLATE, line by line; the fixed text between two placeholders or line
\* ends is one unit (long runs are cut short, ASCII only).
TEMPLATE ==
    Concat(<<
        <<"\n", "---", "\n">>,
        <<"title: \"Formularz rejestracji czasu pracy tworczej\"", "\n">>,
        <<"author: \"JetBrains Poland sp. z o.o.\"", "\n">>,
        <<"date: \"">>, LAST_DAY_OF_MONTH, <<"\"", "\n">>,
        <<"geometry: a4paper,landscape,margin=2cm", "\n">>,
        <<"fontsize: 10pt", "\n", "mainfont: DejaVu Serif", "\n">>,
        <<"lang: pl-PL", "\n", "---", "\n", "\n">>,
        <<"Warszawa, ">>, LAST_DAY_OF_MONTH, <<"\n", "\n">>,
        <<"# Formularz rejestracji czasu pracy tworczej ... / Registration form ...",
          "\n", "\n">>,
        <<"## Dotyczy miesiaca / Concerns the month of: ">>, MONTH, <<"\n", "\n">>,
        <<"| Lp. | Utwor / Work | Autor / Author | Forma ustalenia / Form ... | Status | Data powstania / Date of creation |",
          "\n">>,
        <<"| --- | --- | --- | --- | --- | --- |", "\n">>,
        PRS, <<"\n", "\n">>,
        <<"### Total % of actual working time spent by creative time: ">>,
        PERCENT_CREATIVE, <<"%", "\n", "\n", "\n">>,
        <<"## Oswiadczenie Pracownika", "\n", "\n">>,
        <<"Niniejszym potwierdzam, ... wyniosl ">>, PERCENT_CREATIVE,
        <<" procent.", "\n", "\n">>,
        <<"## Employee's declaration", "\n", "\n">>,
        <<"I hereby declare that, ... for ">>, PERCENT_CREATIVE,
        <<" percent of the entire effective working time (i.e., excluding absences at work).",
          "\n">>
    >>)

\* A bug that escapes the first pipe only (replacen with a count of 1).
EscapeTitle_FirstOnly(title) ==
    IF Matches(title, <<"|">>) = {} THEN title
    ELSE LET i == Min(Matches(title, <<"|">>))
         IN  SubSeq(title, 1, i - 1) \o <<"\\", "|">> \o SubSeq(title, i + 1, Len(title))

\* pr.title.replace("|", "\\|")
EscapeTitle(title) == Replace(title, <<"|">>, <<"\\", "|">>)

\* The url and the link of render_pr.
ReviewUrl(pr, domain) ==
    <<"https://">> \o domain \o <<"/p/">> \o pr.project.key \o <<"/reviews/">>
        \o I32ToString(pr.number)

ReviewLink(pr, domain) ==
    <<"[">> \o ReviewUrl(pr, domain) \o <<"]", "(">> \o ReviewUrl(pr, domain)
        \o <<")">>

StatusLabel(state) == IF state = "Opened" THEN <<"Unfinished">> ELSE <<"Finished">>

\* render_pr: None for a Deleted review, else the row.
render_pr(idx, pr, domain, author) ==
    IF pr.state = "Deleted" THEN None
    ELSE [row |->
            <<"|", " ">> \o I32ToString(idx)
            \o <<" ", "|", " ">> \o EscapeTitle(pr.title)
            \o <<" ", "|", " ">> \o author
            \o <<" ", "|", " ">> \o ReviewLink(pr, domain)
            \o <<" ", "|", " ">> \o StatusLabel(pr.state)
            \o <<" ", "|", " ">> \o FormatDMY(pr.created_at.date)
            \o <<" ", "|">>]

\* The rows render_template collects: enumerate() numbers every entry of the
\* list, and filter_map then drops the entries render_pr gives None for.
RECURSIVE RenderRowsFrom(_, _, _, _)
RenderRowsFrom(idx, prs, domain, author) ==
    IF prs = <<>> THEN <<>>
    ELSE LET r == render_pr(idx + 1, Head(prs), domain, author)
         IN  (IF r = None THEN <<>> ELSE <<r.row>>)
                 \o RenderRowsFrom(idx + 1, Tail(prs), domain, author)

RenderRows(prs, domain, author) == RenderRowsFrom(0, prs, domain, author)

\* A bug that substitutes the first {percent_creative} only.
render_template_FirstPercentOnly(prs, month, percent_creative, space_domain, user_name) ==
    LET body == Join(RenderRows(prs, space_domain, user_name), <<"\n">>)
        t1 == Replace(TEMPLATE, PRS, body)
        t2 == Replace(t1, MONTH, FormatMY(month))
        i == Min(Matches(t2, PERCENT_CREATIVE))
        t3 == SubSeq(t2, 1, i - 1) \o I32ToString(percent_creative)
                  \o SubSeq(t2, i + Len(PERCENT_CREATIVE), Len(t2))
    IN  Replace(t3, LAST_DAY_OF_MONTH, FormatDMY(last_day_of_month(month)))

\* A bug that keeps the Deleted entries' lines as empty rows.
render_template_EmptyRows(prs, month, percent_creative, space_domain, user_name) ==
    LET rows == [i \in 1 .. Len(prs) |->
                    IF render_pr(i, prs[i], space_domain, user_name) = None THEN <<>>
                    ELSE render_pr(i, prs[i], space_domain, user_name).row]
    IN  Replace(Replace(Replace(Replace(TEMPLATE, PRS, Join(rows, <<"\n">>)),
                                MONTH, FormatMY(month)),
                        PERCENT_CREATIVE, I32ToString(percent_creative)),
                LAST_DAY_OF_MONTH, FormatDMY(last_day_of_month(month)))

render_template(prs, month, percent_creative, space_domain, user_name) ==
    LET body == Join(RenderRows(prs, space_domain, user_name), <<"\n">>)
    IN  Replace(Replace(Replace(Replace(TEMPLATE, PRS, body),
                                MONTH, FormatMY(month)),
                        PERCENT_CREATIVE, I32ToString(percent_creative)),
                LAST_DAY_OF_MONTH, FormatDMY(last_day_of_month(month)))

\* --------------------------------------------------------------- decoding
\* The variants serde accepts for ReviewState (PascalCase, case-sensitive).
ReviewState == {"Opened", "Closed", "Deleted"}

\* An element of "data" with its fields decoded: the Review.
DecodeReview(e) ==
    [number |-> e.number, title |-> e.title, state |-> e.state,
     project |-> [key |-> e.key], created_at |-> parse_timestamp(e.createdAt)]

\* A bug that drops the elements that do not decode.
RECURSIVE DecodeData_SkipInvalid(_)
DecodeData_SkipInvalid(data) ==
    IF data = <<>> THEN {[kind |-> "ok", prs |-> <<>>]}
    ELSE LET e == Head(data)
         IN  {[kind |-> "ok",
               prs |-> (IF e.state \in ReviewState /\ parse_timestamp(e.createdAt) # Panic
                        THEN <<DecodeReview(e)>> ELSE <<>>) \o r.prs] :
                 r \in DecodeData_SkipInvalid(Tail(data))}

\* serde_json::from_str::<ApiResponse> over the elements of "data", in order:
\* the first element that fails ends the decoding.  An unknown state is an
\* Err; an invalid createdAt panics inside deserialize_timestamp.  Which of the
\* two fields of one element is met first is the key order of the payload,
\* which the program does not fix: both outcomes are possible.
RECURSIVE DecodeData(_)
DecodeData(data) ==
    IF data = <<>> THEN {[kind |-> "ok", prs |-> <<>>]}
    ELSE LET e == Head(data)
             bad_state == e.state \notin ReviewState
             bad_time == parse_timestamp(e.createdAt) = Panic
         IN  (IF bad_state THEN {[kind |-> "error", prs |-> <<>>]} ELSE {})
             \cup (IF bad_time THEN {[kind |-> "panic", prs |-> <<>>]} ELSE {})
             \cup (IF bad_state \/ bad_time THEN {}
                   ELSE {IF r.kind = "ok"
                         THEN [kind |-> "ok", prs |-> <<DecodeReview(e)>> \o r.prs]
                         ELSE r : r \in DecodeData(Tail(data))})

\* ------------------------------------------------------------ environment
Unset == [set |-> FALSE, text |-> <<>>]
Var(text) == [set |-> TRUE, text |-> text]

\* str::parse::<i32>: an optional sign and at least one digit, nothing else.
ParseI32(s) ==
    LET signed == s # <<>> /\ Head(s) \in {"-", "+"}
        digits == IF signed THEN Tail(s) ELSE s
    IN  IF digits = <<>> \/ DigitPrefixLen(digits, Len(digits)) # Len(digits) THEN None
        ELSE [value |-> IF signed /\ Head(s) = "-" THEN 0 - DigitsValue(digits)
                        ELSE DigitsValue(digits)]

EnvNames ==
    {"SPACE_DOMAIN", "SPACE_PROJECT_ID", "SPACE_TOKEN", "SPACE_USER_ID",
     "USER_NAME", "PERCENT_CREATIVE"}

\* ------------------------------------------------------------------ state
VARIABLES
    pc,         \* where main is: "args", "env", "fetch", "decode", "render", "print", "done"
    arg,        \* args.get(1): [present, text]
    clock,      \* the UTC date Utc::now() gives
    environ,    \* the process environment: a value for each name of EnvNames
    server,     \* what the API answers to the GET
    month,      \* main's month
    config,     \* the values main read from the environment
    requests,   \* the number of GETs sent so far
    url,        \* the request of fetch_prs_for_month
    prs,        \* main's prs
    rendered,   \* main's rendered
    stdout,     \* what has been printed to standard output
    outcome     \* "running", "ok" (Ok(())), "error" (main returned Err), "panic"

vars ==
    <<pc, arg, clock, environ, server, month, config, requests, url, prs,
      rendered, stdout, outcome>>

NoArg == [present |-> FALSE, text |-> <<>>]
Arg(text) == [present |-> TRUE, text |-> text]

NoConfig ==
    [space_domain |-> <<>>, project_id |-> <<>>, token |-> <<>>, user_id |-> <<>>,
     user_name |-> <<>>, percent_creative |-> 0]

NoUrl == [sent |-> FALSE]

\* The run stops: a panic unwinds out of main, an Err is returned by it.
Stop(how) ==
    /\ pc' = "done"
    /\ outcome' = how

\* A bug that sends the request before it looks at the month argument.
ParseArgs_FetchFirst ==
    /\ pc = "args"
    /\ requests' = requests + 1
    /\ IF ~arg.present
       THEN /\ month' = previous_month(clock)
            /\ pc' = "env"
            /\ UNCHANGED outcome
       ELSE IF ParseMonthArg(arg.text) = Panic
            THEN Stop("panic") /\ UNCHANGED month
            ELSE /\ month' = ParseMonthArg(arg.text)
                 /\ pc' = "env"
                 /\ UNCHANGED outcome
    /\ UNCHANGED <<arg, clock, environ, server, config, url, prs, rendered, stdout>>

\* main, lines 214-218: the month argument, or the previous month.
ParseArgs ==
    /\ pc = "args"
    /\ IF ~arg.present
       THEN /\ month' = previous_month(clock)
            /\ pc' = "env"
            /\ UNCHANGED outcome
       ELSE IF ParseMonthArg(arg.text) = Panic
            THEN Stop("panic") /\ UNCHANGED month
            ELSE /\ month' = ParseMonthArg(arg.text)
                 /\ pc' = "env"
                 /\ UNCHANGED outcome
    /\ UNCHANGED <<arg, clock, environ, server, config, requests, url, prs,
                   rendered, stdout>>

\* main, lines 220-228: every variable is required, and PERCENT_CREATIVE is an i32.
LoadEnv ==
    /\ pc = "env"
    /\ IF \/ \E n \in EnvNames : ~environ[n].set
          \/ ParseI32(environ["PERCENT_CREATIVE"].text) = None
       THEN Stop("panic") /\ UNCHANGED config
       ELSE /\ config' =
                [space_domain |-> environ["SPACE_DOMAIN"].text,
                 project_id |-> environ["SPACE_PROJECT_ID"].text,
                 token |-> environ["SPACE_TOKEN"].text,
                 user_id |-> environ["SPACE_USER_ID"].text,
                 user_name |-> environ["USER_NAME"].text,
                 percent_creative |-> ParseI32(environ["PERCENT_CREATIVE"].text).value]
            /\ pc' = "fetch"
            /\ UNCHANGED outcome
    /\ UNCHANGED <<arg, clock, environ, server, month, requests, url, prs,
                   rendered, stdout>>

\* fetch_prs_for_month, lines 80-100: the range, the url and send()?.  send
\* fails on a transport error only; the status of a response is not looked at.
SendRequest ==
    /\ pc = "fetch"
    /\ url' = [sent |-> TRUE,
               space_domain |-> config.space_domain,
               project_id |-> config.project_id,
               author |-> config.user_id,
               from |-> QueryRange(month).start_date,
               to |-> QueryRange(month).end_date,
               bearer |-> config.token]
    /\ requests' = requests + 1
    /\ IF server.kind = "transport_error"
       THEN Stop("error")
       ELSE pc' = "decode" /\ UNCHANGED outcome
    /\ UNCHANGED <<arg, clock, environ, server, month, config, prs, rendered, stdout>>

\* fetch_prs_for_month, lines 102-109: text()?, from_str()? and the unwrapping.
DecodeResponse ==
    /\ pc = "decode"
    /\ IF ~server.text_ok \/ ~server.json
       THEN Stop("error") /\ UNCHANGED prs
       ELSE \E r \in DecodeData(server.data) :
                IF r.kind = "ok"
                THEN /\ prs' = r.prs
                     /\ pc' = "render"
                     /\ UNCHANGED outcome
                ELSE Stop(r.kind) /\ UNCHANGED prs
    /\ UNCHANGED <<arg, clock, environ, server, month, config, requests, url,
                   rendered, stdout>>

\* main, line 232.
Render ==
    /\ pc = "render"
    /\ rendered' = render_template(prs, month, config.percent_creative,
                                   config.space_domain, config.user_name)
    /\ pc' = "print"
    /\ UNCHANGED <<arg, clock, environ, server, month, config, requests, url, prs,
                   stdout, outcome>>

\* main, lines 233-235: println! and Ok(()).
PrintDocument ==
    /\ pc = "print"
    /\ stdout' = stdout \o rendered \o <<"\n">>
    /\ Stop("ok")
    /\ UNCHANGED <<arg, clock, environ, server, month, config, requests, url, prs,
                   rendered>>

Next ==
    \/ ParseArgs
    \/ LoadEnv
    \/ SendRequest
    \/ DecodeResponse
    \/ Render
    \/ PrintDocument

\* ----------------------------------------------------------------- inputs
DefaultClock == [y |-> 2024, m |-> 3, d |-> 15]
DefaultArg == Arg(YearMonthText(2024, 2))

DefaultEnviron ==
    [n \in EnvNames |->
        CASE n = "SPACE_DOMAIN" -> Var(<<"s", ".", "x">>)
          [] n = "SPACE_PROJECT_ID" -> Var(<<"p", "1">>)
          [] n = "SPACE_TOKEN" -> Var(<<"t">>)
          [] n = "SPACE_USER_ID" -> Var(<<"u", "1">>)
          [] n = "USER_NAME" -> Var(<<"J", "a", "n">>)
          [] OTHER -> Var(<<"8", "0">>)]

\* createdAt values: noon of 2024-02-10, and the first day after and the last
\* day before the range of chrono.
GoodMillis == Millis(DaysFromCivil(2024, 2, 10), 43200000)
LateMillis == Millis(DaysFromCivil(262142, 12, 31) + 1, 0)
EarlyMillis == Millis(DaysFromCivil(0 - 262143, 1, 1) - 1, 86399999)

Element(number, title, state, createdAt) ==
    [number |-> number, title |-> title, state |-> state,
     key |-> <<"B", "Z">>, createdAt |-> createdAt]

Response(status, data) ==
    [kind |-> "response", status |-> status, text_ok |-> TRUE, json |-> TRUE,
     data |-> data]

\* A response whose body is no JSON of the ApiResponse shape.
NotJson(status) ==
    [kind |-> "response", status |-> status, text_ok |-> TRUE, json |-> FALSE,
     data |-> <<>>]

\* A response whose body cannot be read as text.
BrokenBody(status) ==
    [kind |-> "response", status |-> status, text_ok |-> FALSE, json |-> FALSE,
     data |-> <<>>]

TransportError == [kind |-> "transport_error"]

DefaultServer == Response(200, <<Element(7, <<"T">>, "Opened", GoodMillis)>>)

\* The lists of at most n elements, element i made by make(i, x) from a choice x of S.
ListsOf(S, n, make(_, _)) ==
    UNION {{[i \in 1 .. k |-> make(i, f[i])] : f \in [1 .. k -> S]} : k \in 0 .. n}

\* The run specification: a few arguments and environments, every kind of answer.
RunArgs ==
    {NoArg, Arg(YearMonthText(2024, 2)), Arg(YearMonthText(2024, 13)),
     Arg(<<"a", "b", "c">>), Arg(<<"2", "0", "2", "4">>)}

RunEnvirons ==
    {DefaultEnviron,
     [DefaultEnviron EXCEPT !["USER_NAME"] = Unset],
     [DefaultEnviron EXCEPT !["PERCENT_CREATIVE"] = Var(<<"8", "0", "%">>)]}

RunStatuses == {200, 404, 500}

RunElement(i, x) == Element(i, <<"T">>, x[1], x[2])

RunChoices ==
    ({"Opened", "Deleted", "Merged"} \X {GoodMillis, LateMillis})
        \cup {<<"opened", GoodMillis>>, <<"Closed", EarlyMillis>>}

RunData == ListsOf(RunChoices, MaxData, RunElement)

RunServers ==
    {TransportError}
        \cup {NotJson(st) : st \in RunStatuses}
        \cup {BrokenBody(st) : st \in RunStatuses}
        \cup {Response(st, data) : st \in RunStatuses, data \in RunData}

\* The date specification: every day as the current date, every month as the argument.
AllDates ==
    {from_ymd_opt(y, m, d) : y \in Years, m \in 1 .. 12, d \in 1 .. 31} \ {None}

DateArgs ==
    {Arg(YearMonthText(y, m)) : y \in Years, m \in 0 .. 13}
        \cup {Arg(<<>>), Arg(<<"2", "0", "2", "4">>), Arg(<<"2", "0", "2", "4", "-">>),
              Arg(<<"2", "0", "2", "4", "-", "2">>),
              Arg(<<"2", "0", "2", "4", "-", "0", "2", "-", "0", "3">>),
              Arg(<<"2", "0", "2", "4", "5", "-", "0", "1">>),
              Arg(<<"2", "0", "2", "4", "-", "1", "x">>)}

\* The rendering specification: lists of reviews in every state.
RenderChoices ==
    (ReviewState \X {<<"A", "|", "B">>})
        \cup ({"Opened"} \X {PRS, <<"x">> \o MONTH})

RenderElement(i, x) == Element(100 + i, x[2], x[1], GoodMillis)

RenderData == ListsOf(RenderChoices, MaxPrs, RenderElement)

RenderEnvirons ==
    {DefaultEnviron,
     [DefaultEnviron EXCEPT !["PERCENT_CREATIVE"] = Var(<<"-", "1">>),
                            !["USER_NAME"] = Var(<<"J">> \o PRS)]}

\* The row specification: one review, every short title.
TitleChars == {"A", "B", "|", "\\", "\n"}

RECURSIVE TextsUpTo(_, _)
TextsUpTo(chars, n) ==
    IF n = 0 THEN {<<>>}
    ELSE TextsUpTo(chars, n - 1)
             \cup {<<c>> \o t : c \in chars, t \in {u \in TextsUpTo(chars, n - 1) : Len(u) = n - 1}}

RowTitles == TextsUpTo(TitleChars, MaxTitleLen)

RowAuthors == {<<"J", "a", "n">>, <<"A", "|", "B">>, <<"J", "\n">>}

RowEnvirons == {[DefaultEnviron EXCEPT !["USER_NAME"] = Var(a)] : a \in RowAuthors}

RowData == {<<Element(7, t, st, GoodMillis)>> : t \in RowTitles, st \in ReviewState}

\* ----------------------------------------------------------- specifications
Start ==
    /\ pc = "args"
    /\ month = None
    /\ config = NoConfig
    /\ requests = 0
    /\ url = NoUrl
    /\ prs = <<>>
    /\ rendered = <<>>
    /\ stdout = <<>>
    /\ outcome = "running"

Init ==
    /\ Start
    /\ arg \in RunArgs
    /\ clock = DefaultClock
    /\ environ \in RunEnvirons
    /\ server \in RunServers

InitDates ==
    /\ Start
    /\ \/ arg = NoArg /\ clock \in AllDates
       \/ arg \in DateArgs /\ clock = DefaultClock
    /\ environ = DefaultEnviron
    /\ server = DefaultServer

InitRender ==
    /\ Start
    /\ arg = DefaultArg
    /\ clock = DefaultClock
    /\ environ \in RenderEnvirons
    /\ server \in {Response(200, data) : data \in RenderData}

InitRow ==
    /\ Start
    /\ arg = DefaultArg
    /\ clock = DefaultClock
    /\ environ \in RowEnvirons
    /\ server \in {Response(200, data) : data \in RowData}

Spec == Init /\ [][Next]_vars
SpecDates == InitDates /\ [][Next]_vars
SpecRender == InitRender /\ [][Next]_vars
SpecRow == InitRow /\ [][Next]_vars

\* ------------------------------------------------------------------ claims
\* Reading the printed document back: the text between the rule of the table
\* head and the "### Total" heading, without the line ends around it.
PositionOf(doc, unit) == Min({i \in 1 .. Len(doc) : doc[i] = unit})

TableRule == "| --- | --- | --- | --- | --- | --- |"
TotalHeading == "### Total % of actual working time spent by creative time: "

TableBody(doc) ==
    SubSeq(doc, PositionOf(doc, TableRule) + 2, PositionOf(doc, TotalHeading) - 3)

\* The lines of a text: none for the empty text.
RECURSIVE Lines(_)
Lines(text) ==
    IF text = <<>> THEN <<>>
    ELSE IF Matches(text, <<"\n">>) = {} THEN <<text>>
    ELSE LET i == Min(Matches(text, <<"\n">>))
         IN  <<SubSeq(text, 1, i - 1)>>
                 \o (IF i = Len(text) THEN <<<<>>>> ELSE Lines(SubSeq(text, i + 1, Len(text))))

HasPrefix(text, prefix) ==
    Len(text) >= Len(prefix) /\ SubSeq(text, 1, Len(prefix)) = prefix

HasSuffix(text, suffix) ==
    Len(text) >= Len(suffix)
        /\ SubSeq(text, Len(text) - Len(suffix) + 1, Len(text)) = suffix

\* The date after "Warszawa, " in the document.
DisplayedLastDay(doc) ==
    SubSeq(doc, PositionOf(doc, "Warszawa, ") + 1, PositionOf(doc, "Warszawa, ") + 10)

FirstOfNextMonth(date) ==
    IF date.m = 12 THEN [y |-> date.y + 1, m |-> 1, d |-> 1]
    ELSE [y |-> date.y, m |-> date.m + 1, d |-> 1]

DayNumber(date) == DaysFromCivil(date.y, date.m, date.d)

\* C4: for every target month the query's end_date and the displayed last
\* day are both the day before the 1st of the following month (January of
\* year + 1 after December), so the two agree, and start_date is the 1st.
C4_EndDateIsLastDay ==
    /\ url.sent =>
        /\ url.from = [y |-> month.y, m |-> month.m, d |-> 1]
        /\ url.to.y = month.y /\ url.to.m = month.m
        /\ DayNumber(url.to) + 1 = DayNumber(FirstOfNextMonth(month))
    /\ rendered # <<>> => DisplayedLastDay(rendered) = FormatDMY(url.to)

C4_Witness ==
    /\ rendered # <<>>
    /\ month.m = 12
    /\ url.to = [y |-> month.y, m |-> 12, d |-> 31]
    /\ DisplayedLastDay(rendered) = FormatDMY(url.to)

C4_WitnessLeap ==
    /\ rendered # <<>>
    /\ url.to = [y |-> 2024, m |-> 2, d |-> 29]

\* C8: with no month argument the target month is the month before the
\* current one (December of the year before, in January), and the query
\* range is that month's first and last day.
PrecedingMonth(date) ==
    IF date.m = 1 THEN [y |-> date.y - 1, m |-> 12] ELSE [y |-> date.y, m |-> date.m - 1]

C8_DefaultIsPreviousMonth ==
    (~arg.present /\ pc # "args") =>
        /\ [y |-> month.y, m |-> month.m] = PrecedingMonth(clock)
        /\ url.sent =>
            /\ url.from = [y |-> month.y, m |-> month.m, d |-> 1]
            /\ url.to = [y |-> month.y, m |-> month.m,
                         d |-> DaysInMonth(month.y, month.m)]
            /\ DayNumber(url.to) + 1 = DayNumber([y |-> clock.y, m |-> clock.m, d |-> 1])

C8_Witness ==
    /\ ~arg.present
    /\ clock = [y |-> 2024, m |-> 3, d |-> 15]
    /\ url.sent
    /\ url.from = [y |-> 2024, m |-> 2, d |-> 1]
    /\ url.to = [y |-> 2024, m |-> 2, d |-> 29]

\* A text of the form YYYY-MM: one to four digits, a dash, and one or two
\* digits that number a month.
IsYearMonth(t) ==
    \E i \in 1 .. 4 :
        /\ Len(t) \in {i + 2, i + 3}
        /\ \A j \in 1 .. i : IsDigit(t[j])
        /\ t[i + 1] = "-"
        /\ \A j \in (i + 2) .. Len(t) : IsDigit(t[j])
        /\ DigitsValue(SubSeq(t, i + 2, Len(t))) \in 1 .. 12

\* C7: with a malformed month argument the run ends in a panic with nothing
\* printed, and no request has been sent at any point of it; in every run a
\* request is sent only after the month is known.
C7_NoRequestOnBadMonth ==
    /\ (arg.present /\ ~IsYearMonth(arg.text)) =>
        /\ requests = 0
        /\ pc \in {"args", "done"}
        /\ pc = "done" => (outcome = "panic" /\ stdout = <<>>)
    /\ requests > 0 => month # None

C7_Witness ==
    /\ arg.present
    /\ ~IsYearMonth(arg.text)
    /\ pc = "done"
    /\ outcome = "panic"
    /\ requests = 0

\* C2: a response with a non-success status ends the run in an error, with
\* nothing printed, whatever its body is.
C2_NonSuccessIsFatal ==
    (pc = "done" /\ server.kind = "response" /\ server.status \notin 200 .. 299
        /\ requests = 1) =>
        (outcome # "ok" /\ stdout = <<>>)

\* The elements of a response that do not decode.
TimeOutOfRange(raw) ==
    \/ raw.days < DayNumber([y |-> 0 - 262143, m |-> 1, d |-> 1])
    \/ raw.days > DayNumber([y |-> 262142, m |-> 12, d |-> 31])

BadState(e) == e.state \notin {"Opened", "Closed", "Deleted"}
BadElement(e) == BadState(e) \/ TimeOutOfRange(e.createdAt)

HasBadElement ==
    /\ server.kind = "response"
    /\ server.json
    /\ \E i \in 1 .. Len(server.data) : BadElement(server.data[i])

FirstBadElement ==
    server.data[Min({i \in 1 .. Len(server.data) : BadElement(server.data[i])})]

NotDeleted(e) == e.state # "Deleted"
Survivors == SelectSeq(server.data, NotDeleted)

TableLines == Lines(TableBody(rendered))

\* C1: the k-th line of the table carries the index k.
C1_DenseIndices ==
    rendered # <<>> =>
        \A k \in 1 .. Len(TableLines) :
            HasPrefix(TableLines[k], <<"|", " ">> \o ToDigits(k) \o <<" ", "|", " ">>)

\* The cells of a row that follow the author: link, status and date.
RowEnd(e) ==
    <<" ", "|", " ", "[", "https://">> \o config.space_domain \o <<"/p/">> \o e.key
        \o <<"/reviews/">> \o ToDigits(e.number) \o <<"]", "(", "https://">>
        \o config.space_domain \o <<"/p/">> \o e.key \o <<"/reviews/">>
        \o ToDigits(e.number) \o <<")", " ", "|", " ">>
        \o (IF e.state = "Opened" THEN <<"Unfinished">> ELSE <<"Finished">>)
        \o <<" ", "|", " ">> \o FormatDMY(CivilFromDays(e.createdAt.days))
        \o <<" ", "|">>

\* The units of TEMPLATE that are fixed text (no placeholder character, no line end).
FixedUnits ==
    {TEMPLATE[i] : i \in 1 .. Len(TEMPLATE)}
        \ ({PRS[i] : i \in 1 .. Len(PRS)} \cup {MONTH[i] : i \in 1 .. Len(MONTH)}
           \cup {PERCENT_CREATIVE[i] : i \in 1 .. Len(PERCENT_CREATIVE)}
           \cup {LAST_DAY_OF_MONTH[i] : i \in 1 .. Len(LAST_DAY_OF_MONTH)}
           \cup {"\n"})
IsFixedUnit(u) == u \in FixedUnits

\* C5: the table body is one line per element that is not Deleted, in the
\* order of the response, each line ending with that element's link, status
\* and date; with no such element the body is empty; the fixed text of the
\* template is all there, in its order.
C5_OneRowPerSurvivor ==
    rendered # <<>> =>
        /\ Len(TableLines) = Len(Survivors)
        /\ \A k \in 1 .. Len(Survivors) : HasSuffix(TableLines[k], RowEnd(Survivors[k]))
        /\ Survivors = <<>> => TableBody(rendered) = <<>>
        /\ SelectSeq(rendered, IsFixedUnit) = SelectSeq(TEMPLATE, IsFixedUnit)
        /\ rendered[PositionOf(rendered, TableRule) + 1] = "\n"
        /\ rendered[PositionOf(rendered, TotalHeading) - 1] = "\n"

C5_Witness ==
    /\ stdout # <<>>
    /\ Len(server.data) = 3
    /\ Len(Survivors) = 2
    /\ server.data[2].state = "Deleted"
    /\ Len(TableLines) = 2
    /\ HasSuffix(TableLines[2], RowEnd(server.data[3]))

C5_WitnessEmpty ==
    /\ stdout # <<>>
    /\ Len(server.data) = 2
    /\ Survivors = <<>>
    /\ TableBody(rendered) = <<>>

\* C3 as stated: none of the four placeholders is left in the document.
C3_NoPlaceholderRemains ==
    rendered # <<>> =>
        /\ Matches(rendered, PRS) = {}
        /\ Matches(rendered, MONTH) = {}
        /\ Matches(rendered, PERCENT_CREATIVE) = {}
        /\ Matches(rendered, LAST_DAY_OF_MONTH) = {}

RECURSIVE CountIn(_, _)
CountIn(texts, pat) ==
    IF texts = <<>> THEN 0
    ELSE Cardinality(Matches(Head(texts), pat)) + CountIn(Tail(texts), pat)

SurvivorTitles == [k \in 1 .. Len(Survivors) |-> Survivors[k].title]

\* C3, amended: every placeholder of the template is replaced, and no {month},
\* {percent_creative} or {last_day_of_month} is left in the document; a {prs}
\* is left exactly where the title of a rendered review or the author name
\* holds one (the domain and the project key hold none here).
C3_TemplatePlaceholdersReplaced ==
    rendered # <<>> =>
        /\ Matches(rendered, MONTH) = {}
        /\ Matches(rendered, PERCENT_CREATIVE) = {}
        /\ Matches(rendered, LAST_DAY_OF_MONTH) = {}
        /\ Cardinality(Matches(rendered, PRS)) =
               CountIn(SurvivorTitles, PRS)
                   + Len(Survivors) * Cardinality(Matches(config.user_name, PRS))

C3_Witness ==
    /\ stdout # <<>>
    /\ Matches(config.user_name, PRS) = {}
    /\ CountIn(SurvivorTitles, PRS) = 1
    /\ CountIn(SurvivorTitles, MONTH) = 1
    /\ Cardinality(Matches(rendered, PRS)) = 1
    /\ Matches(rendered, MONTH) = {}

\* The title with a backslash put before each pipe, character by character.
EscapedByChar(t) ==
    Concat([i \in 1 .. Len(t) |-> IF t[i] = "|" THEN <<"\\", "|">> ELSE <<t[i]>>])

\* C9: the title cell of a row is the title with a backslash before every
\* pipe and no other change.
C9_TitlePipesEscaped ==
    (rendered # <<>> /\ Survivors # <<>>) =>
        HasPrefix(TableBody(rendered),
                  <<"|", " ", "1", " ", "|", " ">> \o EscapedByChar(server.data[1].title)
                      \o <<" ", "|", " ">> \o config.user_name \o <<" ", "|", " ", "[">>)

C9_Witness ==
    /\ stdout # <<>>
    /\ Survivors # <<>>
    /\ server.data[1].title = <<"A", "|", "B">>
    /\ HasPrefix(TableBody(rendered),
                 <<"|", " ", "1", " ", "|", " ", "A", "\\", "|", "B", " ", "|", " ">>)

\* The pipes of a text that no backslash precedes.
UnescapedPipes(text) ==
    {i \in 1 .. Len(text) : text[i] = "|" /\ (i = 1 \/ text[i - 1] # "\\")}

\* C10: a row is one line of six cells: seven unescaped pipes, no line break.
C10_RowIsSixCells ==
    (rendered # <<>> /\ Survivors # <<>>) =>
        /\ Cardinality(UnescapedPipes(TableBody(rendered))) = 7
        /\ Matches(TableBody(rendered), <<"\n">>) = {}

====
